---- MODULE Spec2Model ----
(***************************************************************************)
(* The fixture hierarchy of pkcs11test.h as a state machine.               *)
(*                                                                         *)
(* One behaviour is the life of one gTest test case: the fixture object is *)
(* constructed base class first, the test body runs, the object is         *)
(* destroyed derived class first.  Every call through g_fns is appended to *)
(* `trace`; the status each call returns is chosen by the PKCS#11 library  *)
(* and is therefore a free input of every step.                            *)
(*                                                                         *)
(* Spec       one test case whose body makes no call.                      *)
(* SpecGuard  one test case whose body creates and destroys the RAII       *)
(*            session objects (Session, LoginSession).                     *)
(* SpecSeq    several test cases run one after another.                    *)
(***************************************************************************)
EXTENDS Integers, Sequences, FiniteSets

VARIABLES
    variant,        \* the fixture class the test case is declared with (TEST_F)
    g_token_flags,  \* globals.h: the token's capability flags
    session_,       \* SessionTest::session_
    pc,             \* which constructor / destructor of the chain runs next
    trace,          \* the calls issued through g_fns, in order
    failures,       \* the gTest failures recorded for the running test case
    cerr,           \* the diagnostics written to std::cerr
    bodyRan,        \* whether TestBody() was executed
    guards,         \* the RAII session objects alive in the test body, innermost last
    guardsMade,     \* how many RAII session objects the test body has created
    archive         \* of the test cases already run: their lifecycle and session calls

\* What no constructor and no destructor of a fixture touches.
rest == <<guards, guardsMade, archive>>

vars == <<variant, g_token_flags, session_, pc, trace, failures, cerr, bodyRan, rest>>

----------------------------------------------------------------------------
(* Values *)

\* Number of distinct handles the library may hand out.
MaxHandle == 2

INVALID_SESSION_HANDLE == 99999

NULL_PTR == 0

\* The handles a successful C_OpenSession stores.  The sentinel is, by its
\* definition, a value the library never hands out.
Handles == 1..MaxHandle

\* The values a CK_SESSION_HANDLE object may hold.
CK_SESSION_HANDLE == Handles \cup {INVALID_SESSION_HANDLE}

\* The statuses a call may return.  The fixtures only ever compare a status
\* with CKR_OK, so one value stands for every other status.
CK_RV == {"CKR_OK", "CKR_FUNCTION_FAILED"}

\* The values of g_token_flags, as far as the fixtures look at them (a bitset
\* is modelled as the set of the bits that are set).
TokenFlags == SUBSET {"CKF_LOGIN_REQUIRED"}

\* flags & bit
HasFlag(flags, bit) == bit \in flags

\* The fixture classes, and for each its chain of classes, base class first.
Chain(v) ==
    CASE v = "PKCS11Test"           -> <<"PKCS11Test">>
      [] v = "SessionTest"          -> <<"PKCS11Test", "SessionTest">>
      [] v = "ReadOnlySessionTest"  -> <<"PKCS11Test", "SessionTest", "ReadOnlySessionTest">>
      [] v = "ReadWriteSessionTest" -> <<"PKCS11Test", "SessionTest", "ReadWriteSessionTest">>
      [] v = "ROUserSessionTest"    -> <<"PKCS11Test", "SessionTest", "ReadOnlySessionTest", "ROUserSessionTest">>
      [] v = "RWUserSessionTest"    -> <<"PKCS11Test", "SessionTest", "ReadWriteSessionTest", "RWUserSessionTest">>
      [] v = "RWSOSessionTest"      -> <<"PKCS11Test", "SessionTest", "ReadWriteSessionTest", "RWSOSessionTest">>
      [] v = "ROEitherSessionTest"  -> <<"PKCS11Test", "SessionTest", "ReadOnlySessionTest", "ROEitherSessionTest">>
      [] v = "RWEitherSessionTest"  -> <<"PKCS11Test", "SessionTest", "ReadWriteSessionTest", "RWEitherSessionTest">>

Variants ==
    {"PKCS11Test", "SessionTest", "ReadOnlySessionTest", "ReadWriteSessionTest",
     "ROUserSessionTest", "RWUserSessionTest", "RWSOSessionTest",
     "ROEitherSessionTest", "RWEitherSessionTest"}

----------------------------------------------------------------------------
(* Status Assertion Layer *)

\* CK_RV_::operator==
CK_RV_Eq(a, b) == a = b

\* Mutant: the macro expands to ASSERT_EQ, whose failures are fatal.
ASSERT_CKR(expected, actual, at, fails) ==
    IF CK_RV_Eq(expected, actual)
    THEN fails
    ELSE Append(fails, [at |-> at, expected |-> expected, actual |-> actual, fatal |-> TRUE])

\* EXPECT_CKR(expected, actual), expanded at a place where the call just
\* appended to the trace is number `at`: EXPECT_EQ records a non-fatal
\* failure on mismatch and nothing otherwise.
EXPECT_CKR(expected, actual, at, fails) ==
    IF CK_RV_Eq(expected, actual)
    THEN fails
    ELSE Append(fails, [at |-> at, expected |-> expected, actual |-> actual, fatal |-> FALSE])

\* EXPECT_CKR_OK(val)
EXPECT_CKR_OK(actual, at, fails) == EXPECT_CKR("CKR_OK", actual, at, fails)

\* ::testing::Test::HasFatalFailure()
HasFatalFailure(fails) == \E i \in 1..Len(fails) : fails[i].fatal

----------------------------------------------------------------------------
(* Position in the chain of constructors and destructors *)

\* The class whose constructor or destructor runs next.
Running == IF pc.phase \in {"ctor", "dtor"} THEN Chain(variant)[pc.idx] ELSE "none"

\* After the constructor of class number pc.idx: the next derived class, or the body.
AfterCtor ==
    IF pc.idx < Len(Chain(variant))
    THEN [phase |-> "ctor", idx |-> pc.idx + 1]
    ELSE [phase |-> "body", idx |-> pc.idx]

\* After the destructor of class number pc.idx: the base class, or nothing.
AfterDtor ==
    IF pc.idx > 1
    THEN [phase |-> "dtor", idx |-> pc.idx - 1]
    ELSE [phase |-> "done", idx |-> 0]

\* One call through g_fns as it is appended to the trace.
\* `by` is the class whose constructor or destructor issues it, `arg` the
\* session flags or the user type passed, `h` the session handle passed (for
\* C_OpenSession: the value *phSession holds when the call returns).
Call(fn, by, arg, h, rv) == [fn |-> fn, by |-> by, arg |-> arg, h |-> h, rv |-> rv]

Init ==
    /\ variant \in Variants
    /\ g_token_flags \in TokenFlags
    /\ session_ \in CK_SESSION_HANDLE
    /\ pc = [phase |-> "ctor", idx |-> 1]
    /\ trace = <<>>
    /\ failures = <<>>
    /\ cerr = <<>>
    /\ bodyRan = FALSE
    /\ guards = <<>>
    /\ guardsMade = 0
    /\ archive = <<>>

----------------------------------------------------------------------------
(* class PKCS11Test *)

\* Mutant: the constructor does not initialize the library.
PKCS11Test_ctor_NoInitialize ==
    /\ pc.phase = "ctor" /\ Running = "PKCS11Test"
    /\ pc' = AfterCtor
    /\ UNCHANGED <<variant, g_token_flags, rest, session_, trace, failures, cerr, bodyRan>>

PKCS11Test_ctor ==
    /\ pc.phase = "ctor" /\ Running = "PKCS11Test"
    /\ \E rv \in CK_RV :
        /\ trace' = Append(trace, Call("C_Initialize", "PKCS11Test", "", NULL_PTR, rv))
        /\ failures' = EXPECT_CKR_OK(rv, Len(trace) + 1, failures)
    /\ pc' = AfterCtor
    /\ UNCHANGED <<variant, g_token_flags, rest, session_, cerr, bodyRan>>

\* Mutant: finalize is skipped when initialize did not succeed.
PKCS11Test_dtor_OnlyIfInitialized ==
    /\ pc.phase = "dtor" /\ Running = "PKCS11Test"
    /\ IF trace[1].rv = "CKR_OK"
       THEN \E rv \in CK_RV :
               /\ trace' = Append(trace, Call("C_Finalize", "PKCS11Test", "", NULL_PTR, rv))
               /\ failures' = EXPECT_CKR_OK(rv, Len(trace) + 1, failures)
       ELSE UNCHANGED <<trace, failures>>
    /\ pc' = AfterDtor
    /\ UNCHANGED <<variant, g_token_flags, rest, session_, cerr, bodyRan>>

PKCS11Test_dtor ==
    /\ pc.phase = "dtor" /\ Running = "PKCS11Test"
    /\ \E rv \in CK_RV :
        /\ trace' = Append(trace, Call("C_Finalize", "PKCS11Test", "", NULL_PTR, rv))
        /\ failures' = EXPECT_CKR_OK(rv, Len(trace) + 1, failures)
    /\ pc' = AfterDtor
    /\ UNCHANGED <<variant, g_token_flags, rest, session_, cerr, bodyRan>>

----------------------------------------------------------------------------
(* class SessionTest *)

\* The slot flags C_GetSlotInfo reports.  When the call fails slot_info is
\* never written and the flag test reads an indeterminate value, so either
\* branch may be taken whatever the status.
SlotFlags == SUBSET {"CKF_TOKEN_PRESENT"}

SessionTest_ctor ==
    /\ pc.phase = "ctor" /\ Running = "SessionTest"
    /\ session_' = INVALID_SESSION_HANDLE
    /\ \E rv \in CK_RV, slot_info_flags \in SlotFlags :
        /\ trace' = Append(trace, Call("C_GetSlotInfo", "SessionTest", "", NULL_PTR, rv))
        /\ failures' = EXPECT_CKR_OK(rv, Len(trace) + 1, failures)
        /\ cerr' = IF ~HasFlag(slot_info_flags, "CKF_TOKEN_PRESENT")
                   THEN Append(cerr, [msg |-> "Need to specify a slot ID that has a token present",
                                      user_type |-> "", rv |-> ""])
                   ELSE cerr
    /\ pc' = AfterCtor
    /\ UNCHANGED <<variant, g_token_flags, rest, bodyRan>>
\* Mutant: the destructor drops the status of C_CloseSession.
SessionTest_dtor_Unchecked ==
    /\ pc.phase = "dtor" /\ Running = "SessionTest"
    /\ IF session_ # INVALID_SESSION_HANDLE
       THEN \E rv \in CK_RV :
               trace' = Append(trace, Call("C_CloseSession", "SessionTest", "", session_, rv))
       ELSE UNCHANGED trace
    /\ pc' = AfterDtor
    /\ UNCHANGED <<variant, g_token_flags, rest, session_, failures, cerr, bodyRan>>

\* Mutant: the destructor closes whatever handle is stored.
SessionTest_dtor_Unguarded ==
    /\ pc.phase = "dtor" /\ Running = "SessionTest"
    /\ \E rv \in CK_RV :
        /\ trace' = Append(trace, Call("C_CloseSession", "SessionTest", "", session_, rv))
        /\ failures' = EXPECT_CKR_OK(rv, Len(trace) + 1, failures)
    /\ pc' = AfterDtor
    /\ UNCHANGED <<variant, g_token_flags, rest, session_, cerr, bodyRan>>

SessionTest_dtor ==
    /\ pc.phase = "dtor" /\ Running = "SessionTest"
    /\ IF session_ # INVALID_SESSION_HANDLE
       THEN \E rv \in CK_RV :
               /\ trace' = Append(trace, Call("C_CloseSession", "SessionTest", "", session_, rv))
               /\ failures' = EXPECT_CKR_OK(rv, Len(trace) + 1, failures)
       ELSE UNCHANGED <<trace, failures>>
    /\ pc' = AfterDtor
    /\ UNCHANGED <<variant, g_token_flags, rest, session_, cerr, bodyRan>>
\* Mutant: Login tries once more when the login is refused.
Login_RetryOnFailure(by, user_type, rv) ==
    /\ trace' = IF rv # "CKR_OK"
                THEN trace \o << Call("C_Login", by, user_type, session_, rv),
                                 Call("C_Login", by, user_type, session_, rv) >>
                ELSE Append(trace, Call("C_Login", by, user_type, session_, rv))
    /\ cerr' = IF rv # "CKR_OK"
               THEN Append(cerr, [msg |-> "Failed to login as user type",
                                  user_type |-> user_type, rv |-> rv])
               ELSE cerr
    /\ UNCHANGED failures

\* Mutant: Login asserts the status it gets on top of logging it.
Login_Asserted(by, user_type, rv) ==
    /\ trace' = Append(trace, Call("C_Login", by, user_type, session_, rv))
    /\ cerr' = IF rv # "CKR_OK"
               THEN Append(cerr, [msg |-> "Failed to login as user type",
                                  user_type |-> user_type, rv |-> rv])
               ELSE cerr
    /\ failures' = EXPECT_CKR_OK(rv, Len(trace) + 1, failures)

\* SessionTest::Login, called from the constructor of class `by`; rv is the
\* status C_Login returns.
Login(by, user_type, rv) ==
    /\ trace' = Append(trace, Call("C_Login", by, user_type, session_, rv))
    /\ cerr' = IF rv # "CKR_OK"
               THEN Append(cerr, [msg |-> "Failed to login as user type",
                                  user_type |-> user_type, rv |-> rv])
               ELSE cerr
    /\ UNCHANGED failures

----------------------------------------------------------------------------
(* class ReadOnlySessionTest, class ReadWriteSessionTest *)

\* What C_OpenSession leaves in *phSession: the new handle on success, the
\* value the object held before on any other status.
C_OpenSession_out(rv, h, old) == IF rv = "CKR_OK" THEN h ELSE old

\* The constructor body both classes share, for the session flags each passes.
OpenSession(by, flags) ==
    \E rv \in CK_RV, h \in Handles :
        /\ session_' = C_OpenSession_out(rv, h, session_)
        /\ trace' = Append(trace, Call("C_OpenSession", by, flags, session_', rv))
        /\ failures' = EXPECT_CKR_OK(rv, Len(trace) + 1, failures)
\* Mutant: the session is opened only when the slot reported a token.
ReadOnlySessionTest_ctor_OnlyWithToken ==
    /\ pc.phase = "ctor" /\ Running = "ReadOnlySessionTest"
    /\ IF \E k \in 1..Len(cerr) :
              cerr[k].msg = "Need to specify a slot ID that has a token present"
       THEN UNCHANGED <<session_, trace, failures>>
       ELSE OpenSession("ReadOnlySessionTest", "CKF_SERIAL_SESSION")
    /\ pc' = AfterCtor
    /\ UNCHANGED <<variant, g_token_flags, rest, cerr, bodyRan>>

ReadOnlySessionTest_ctor ==
    /\ pc.phase = "ctor" /\ Running = "ReadOnlySessionTest"
    /\ OpenSession("ReadOnlySessionTest", "CKF_SERIAL_SESSION")
    /\ pc' = AfterCtor
    /\ UNCHANGED <<variant, g_token_flags, rest, cerr, bodyRan>>

ReadWriteSessionTest_ctor ==
    /\ pc.phase = "ctor" /\ Running = "ReadWriteSessionTest"
    /\ OpenSession("ReadWriteSessionTest", "CKF_SERIAL_SESSION|CKF_RW_SESSION")
    /\ pc' = AfterCtor
    /\ UNCHANGED <<variant, g_token_flags, rest, cerr, bodyRan>>

\* Neither class declares a destructor: the implicit one only passes control
\* on to ~SessionTest.
ReadOnlySessionTest_dtor ==
    /\ pc.phase = "dtor" /\ Running = "ReadOnlySessionTest"
    /\ pc' = AfterDtor
    /\ UNCHANGED <<variant, g_token_flags, rest, session_, trace, failures, cerr, bodyRan>>

ReadWriteSessionTest_dtor ==
    /\ pc.phase = "dtor" /\ Running = "ReadWriteSessionTest"
    /\ pc' = AfterDtor
    /\ UNCHANGED <<variant, g_token_flags, rest, session_, trace, failures, cerr, bodyRan>>

----------------------------------------------------------------------------
(* Fixtures that always log in *)

\* EXPECT_CKR_OK(g_fns->C_Logout(session_)) in the destructor of class `by`.
Logout(by) ==
    \E rv \in CK_RV :
        /\ trace' = Append(trace, Call("C_Logout", by, "", session_, rv))
        /\ failures' = EXPECT_CKR_OK(rv, Len(trace) + 1, failures)

ROUserSessionTest_ctor ==
    /\ pc.phase = "ctor" /\ Running = "ROUserSessionTest"
    /\ \E rv \in CK_RV : Login("ROUserSessionTest", "CKU_USER", rv)
    /\ pc' = AfterCtor
    /\ UNCHANGED <<variant, g_token_flags, rest, session_, bodyRan>>

\* Mutant: the destructor closes the session itself before it logs out.
ROUserSessionTest_dtor_CloseFirst ==
    /\ pc.phase = "dtor" /\ Running = "ROUserSessionTest"
    /\ \E rvc \in CK_RV, rv \in CK_RV :
        /\ trace' = trace \o <<Call("C_CloseSession", "ROUserSessionTest", "", session_, rvc),
                               Call("C_Logout", "ROUserSessionTest", "", session_, rv)>>
        /\ failures' = EXPECT_CKR_OK(rv, Len(trace) + 2, failures)
    /\ pc' = AfterDtor
    /\ UNCHANGED <<variant, g_token_flags, rest, session_, cerr, bodyRan>>

ROUserSessionTest_dtor ==
    /\ pc.phase = "dtor" /\ Running = "ROUserSessionTest"
    /\ Logout("ROUserSessionTest")
    /\ pc' = AfterDtor
    /\ UNCHANGED <<variant, g_token_flags, rest, session_, cerr, bodyRan>>

RWUserSessionTest_ctor ==
    /\ pc.phase = "ctor" /\ Running = "RWUserSessionTest"
    /\ \E rv \in CK_RV : Login("RWUserSessionTest", "CKU_USER", rv)
    /\ pc' = AfterCtor
    /\ UNCHANGED <<variant, g_token_flags, rest, session_, bodyRan>>

\* Mutant: the destructor logs out only when the login succeeded.
RWUserSessionTest_dtor_IfLoggedIn ==
    /\ pc.phase = "dtor" /\ Running = "RWUserSessionTest"
    /\ IF \E i \in 1..Len(trace) : trace[i].fn = "C_Login" /\ trace[i].rv = "CKR_OK"
       THEN \E rv \in CK_RV :
               /\ trace' = Append(trace, Call("C_Logout", "RWUserSessionTest", "", session_, rv))
               /\ failures' = EXPECT_CKR_OK(rv, Len(trace) + 1, failures)
       ELSE UNCHANGED <<trace, failures>>
    /\ pc' = AfterDtor
    /\ UNCHANGED <<variant, g_token_flags, rest, session_, cerr, bodyRan>>

RWUserSessionTest_dtor ==
    /\ pc.phase = "dtor" /\ Running = "RWUserSessionTest"
    /\ Logout("RWUserSessionTest")
    /\ pc' = AfterDtor
    /\ UNCHANGED <<variant, g_token_flags, rest, session_, cerr, bodyRan>>

RWSOSessionTest_ctor ==
    /\ pc.phase = "ctor" /\ Running = "RWSOSessionTest"
    /\ \E rv \in CK_RV : Login("RWSOSessionTest", "CKU_SO", rv)
    /\ pc' = AfterCtor
    /\ UNCHANGED <<variant, g_token_flags, rest, session_, bodyRan>>

RWSOSessionTest_dtor ==
    /\ pc.phase = "dtor" /\ Running = "RWSOSessionTest"
    /\ Logout("RWSOSessionTest")
    /\ pc' = AfterDtor
    /\ UNCHANGED <<variant, g_token_flags, rest, session_, cerr, bodyRan>>

----------------------------------------------------------------------------
(* Fixtures that log in if the token flags say login is required *)

\* Mutant: the constructor logs in without looking at the token flags.
ROEitherSessionTest_ctor_Unconditional ==
    /\ pc.phase = "ctor" /\ Running = "ROEitherSessionTest"
    /\ \E rv \in CK_RV : Login("ROEitherSessionTest", "CKU_USER", rv)
    /\ pc' = AfterCtor
    /\ UNCHANGED <<variant, g_token_flags, rest, session_, bodyRan>>

ROEitherSessionTest_ctor ==
    /\ pc.phase = "ctor" /\ Running = "ROEitherSessionTest"
    /\ IF HasFlag(g_token_flags, "CKF_LOGIN_REQUIRED")
       THEN \E rv \in CK_RV : Login("ROEitherSessionTest", "CKU_USER", rv)
       ELSE UNCHANGED <<trace, cerr, failures>>
    /\ pc' = AfterCtor
    /\ UNCHANGED <<variant, g_token_flags, rest, session_, bodyRan>>
\* Mutant: the destructor logs out only after a login that succeeded.
ROEitherSessionTest_dtor_IfLoggedIn ==
    /\ pc.phase = "dtor" /\ Running = "ROEitherSessionTest"
    /\ IF \E i \in 1..Len(trace) : trace[i].fn = "C_Login" /\ trace[i].rv = "CKR_OK"
       THEN Logout("ROEitherSessionTest")
       ELSE UNCHANGED <<trace, failures>>
    /\ pc' = AfterDtor
    /\ UNCHANGED <<variant, g_token_flags, rest, session_, cerr, bodyRan>>

ROEitherSessionTest_dtor ==
    /\ pc.phase = "dtor" /\ Running = "ROEitherSessionTest"
    /\ IF HasFlag(g_token_flags, "CKF_LOGIN_REQUIRED")
       THEN Logout("ROEitherSessionTest")
       ELSE UNCHANGED <<trace, failures>>
    /\ pc' = AfterDtor
    /\ UNCHANGED <<variant, g_token_flags, rest, session_, cerr, bodyRan>>

RWEitherSessionTest_ctor ==
    /\ pc.phase = "ctor" /\ Running = "RWEitherSessionTest"
    /\ IF HasFlag(g_token_flags, "CKF_LOGIN_REQUIRED")
       THEN \E rv \in CK_RV : Login("RWEitherSessionTest", "CKU_USER", rv)
       ELSE UNCHANGED <<trace, cerr, failures>>
    /\ pc' = AfterCtor
    /\ UNCHANGED <<variant, g_token_flags, rest, session_, bodyRan>>

RWEitherSessionTest_dtor ==
    /\ pc.phase = "dtor" /\ Running = "RWEitherSessionTest"
    /\ IF HasFlag(g_token_flags, "CKF_LOGIN_REQUIRED")
       THEN Logout("RWEitherSessionTest")
       ELSE UNCHANGED <<trace, failures>>
    /\ pc' = AfterDtor
    /\ UNCHANGED <<variant, g_token_flags, rest, session_, cerr, bodyRan>>

----------------------------------------------------------------------------
(* The test body *)

\* gTest runs TestBody() unless a fatal failure was recorded while the
\* fixture was set up, and destroys the fixture in either case.  The body
\* of this model makes no assertion of its own; the calls it makes are those
\* of the RAII session objects it creates, all of them destroyed when it ends.
TestBody ==
    /\ pc.phase = "body"
    /\ guards = <<>>
    /\ bodyRan' = ~HasFatalFailure(failures)
    /\ pc' = [phase |-> "dtor", idx |-> Len(Chain(variant))]
    /\ UNCHANGED <<variant, g_token_flags, rest, session_, trace, failures, cerr>>

Next ==
    \/ PKCS11Test_ctor
    \/ SessionTest_ctor
    \/ ReadOnlySessionTest_ctor
    \/ ReadWriteSessionTest_ctor
    \/ ROUserSessionTest_ctor
    \/ RWUserSessionTest_ctor
    \/ RWSOSessionTest_ctor
    \/ ROEitherSessionTest_ctor
    \/ RWEitherSessionTest_ctor
    \/ TestBody
    \/ RWEitherSessionTest_dtor
    \/ ROEitherSessionTest_dtor
    \/ RWSOSessionTest_dtor
    \/ RWUserSessionTest_dtor
    \/ ROUserSessionTest_dtor
    \/ ReadWriteSessionTest_dtor
    \/ ReadOnlySessionTest_dtor
    \/ SessionTest_dtor
    \/ PKCS11Test_dtor
----------------------------------------------------------------------------
(* RAII objects for different types of session *)

\* How many RAII session objects one test body creates at most.
MaxGuards == 1

\* The two class templates.  Their arguments, the session flags F and the
\* user type U, are passed through to the library and decide nothing, so the
\* typedefs ROSession .. RWSOSession are not told apart.
GuardKinds == {"Session", "LoginSession"}

IsLoginSession(kind) == kind = "LoginSession"

\* The name under which the n-th object of a test body, of the given kind,
\* appears in the trace.
GuardId(kind, n) ==
    IF IsLoginSession(kind)
    THEN <<"LoginSession#1", "LoginSession#2", "LoginSession#3", "LoginSession#4">>[n]
    ELSE <<"Session#1", "Session#2", "Session#3", "Session#4">>[n]

\* The innermost object alive.
Top == guards[Len(guards)]

\* guards with the stage (and nothing else) of the innermost object changed.
WithStage(stage) == [guards EXCEPT ![Len(guards)].stage = stage]

\* The handles of the sessions the library holds open: returned by a
\* successful C_OpenSession and not passed to a successful C_CloseSession
\* since.  The library never returns the handle of an open session.
OpenHandles ==
    {trace[i].h : i \in {k \in 1..Len(trace) :
        /\ trace[k].fn = "C_OpenSession" /\ trace[k].rv = "CKR_OK"
        /\ ~\E j \in (k + 1)..Len(trace) :
              /\ trace[j].fn = "C_CloseSession" /\ trace[j].rv = "CKR_OK"
              /\ trace[j].h = trace[k].h}}

\* A statement of the test body is executing.
InBody == pc.phase = "body" /\ ~HasFatalFailure(failures)

\* Session<F>::Session().  session_ has no initializer: it holds an
\* indeterminate value until C_OpenSession stores a handle in it.  For a
\* LoginSession this is the base class part of the construction.
Session_ctor ==
    /\ InBody
    /\ guardsMade < MaxGuards
    /\ IF guards = <<>> THEN TRUE ELSE Top.stage = "live"
    /\ \E kind \in GuardKinds, rv \in CK_RV, indeterminate \in CK_SESSION_HANDLE :
        \E h \in (IF rv = "CKR_OK" THEN Handles \ OpenHandles ELSE {indeterminate}) :
            LET id == GuardId(kind, guardsMade + 1)
                stored == C_OpenSession_out(rv, h, indeterminate)
            IN  /\ guards' = Append(guards,
                        [id |-> id, kind |-> kind, session_ |-> stored,
                         stage |-> IF IsLoginSession(kind) THEN "base" ELSE "live"])
                /\ trace' = Append(trace, Call("C_OpenSession", id, "F", stored, rv))
                /\ failures' = EXPECT_CKR_OK(rv, Len(trace) + 1, failures)
    /\ guardsMade' = guardsMade + 1
    /\ UNCHANGED <<variant, g_token_flags, session_, pc, cerr, bodyRan, archive>>

\* LoginSession<F, U>::LoginSession(pin)
LoginSession_ctor ==
    /\ InBody
    /\ guards # <<>> /\ Top.stage = "base"
    /\ \E rv \in CK_RV :
        /\ trace' = Append(trace, Call("C_Login", Top.id, "U", Top.session_, rv))
        /\ cerr' = IF rv # "CKR_OK"
                   THEN Append(cerr, [msg |-> "Failed to login as user type with PIN",
                                      user_type |-> "U", rv |-> rv])
                   ELSE cerr
    /\ guards' = WithStage("live")
    /\ UNCHANGED <<variant, g_token_flags, session_, pc, failures, bodyRan, guardsMade, archive>>
\* Mutant: the destructor asserts the status of C_Logout.
LoginSession_dtor_Asserted ==
    /\ InBody
    /\ guards # <<>> /\ Top.stage = "live" /\ IsLoginSession(Top.kind)
    /\ \E rv \in CK_RV :
        /\ trace' = Append(trace, Call("C_Logout", Top.id, "", Top.session_, rv))
        /\ failures' = EXPECT_CKR_OK(rv, Len(trace) + 1, failures)
    /\ guards' = WithStage("base_dtor")
    /\ UNCHANGED <<variant, g_token_flags, session_, pc, cerr, bodyRan, guardsMade, archive>>

\* LoginSession<F, U>::~LoginSession(): the status of C_Logout is dropped.
LoginSession_dtor ==
    /\ InBody
    /\ guards # <<>> /\ Top.stage = "live" /\ IsLoginSession(Top.kind)
    /\ \E rv \in CK_RV :
        trace' = Append(trace, Call("C_Logout", Top.id, "", Top.session_, rv))
    /\ guards' = WithStage("base_dtor")
    /\ UNCHANGED <<variant, g_token_flags, session_, pc, failures, cerr, bodyRan, guardsMade, archive>>

\* Session<F>::~Session(), for a LoginSession after ~LoginSession.
Session_dtor ==
    /\ InBody
    /\ guards # <<>>
    /\ \/ Top.stage = "live" /\ ~IsLoginSession(Top.kind)
       \/ Top.stage = "base_dtor"
    /\ \E rv \in CK_RV :
        /\ trace' = Append(trace, Call("C_CloseSession", Top.id, "", Top.session_, rv))
        /\ failures' = EXPECT_CKR_OK(rv, Len(trace) + 1, failures)
    /\ guards' = SubSeq(guards, 1, Len(guards) - 1)
    /\ UNCHANGED <<variant, g_token_flags, session_, pc, cerr, bodyRan, guardsMade, archive>>

\* The fixtures whose test bodies create RAII session objects here: one that
\* holds no session of its own and one that does.
GuardFixtures == {"PKCS11Test", "ReadOnlySessionTest"}

InitGuard == Init /\ variant \in GuardFixtures

NextGuard ==
    \/ PKCS11Test_ctor
    \/ SessionTest_ctor
    \/ ReadOnlySessionTest_ctor
    \/ Session_ctor
    \/ LoginSession_ctor
    \/ LoginSession_dtor
    \/ Session_dtor
    \/ TestBody
    \/ ReadOnlySessionTest_dtor
    \/ SessionTest_dtor
    \/ PKCS11Test_dtor

SpecGuard == InitGuard /\ [][NextGuard]_vars
----------------------------------------------------------------------------
(* Test cases run one after another *)

\* The number of test cases of a run.
MaxTests == 2

\* What a finished test case leaves behind for the ones after it: its calls
\* that start and stop the library and that open and close sessions.
Lifecycle == {"C_Initialize", "C_Finalize", "C_OpenSession", "C_CloseSession"}

Kept(t) ==
    LET calls == SelectSeq(t, LAMBDA r : r.fn \in Lifecycle)
    IN  [i \in 1..Len(calls) |-> [fn |-> calls[i].fn, h |-> calls[i].h, rv |-> calls[i].rv]]

\* The test cases that have finished.
TestsDone == Cardinality({i \in 1..Len(archive) : archive[i].fn = "C_Finalize"})

\* The runner destroys the fixture of a finished test case and constructs the
\* fixture of the next one: a new object, whose members hold whatever the
\* memory held until a constructor initializes them.  g_token_flags is a
\* global and keeps its value.
NextTest ==
    /\ pc.phase = "done"
    /\ TestsDone + 1 < MaxTests
    /\ archive' = archive \o Kept(trace)
    /\ variant' \in GuardFixtures
    /\ session_' \in CK_SESSION_HANDLE
    /\ pc' = [phase |-> "ctor", idx |-> 1]
    /\ trace' = <<>>
    /\ failures' = <<>>
    /\ cerr' = <<>>
    /\ bodyRan' = FALSE
    /\ guards' = <<>>
    /\ guardsMade' = 0
    /\ UNCHANGED g_token_flags

NextSeq == NextGuard \/ NextTest

SpecSeq == InitGuard /\ [][NextSeq]_vars

Spec == Init /\ [][Next]_vars

----------------------------------------------------------------------------
(* Vocabulary of the properties *)

Done == pc.phase = "done"

\* The fixture object is fully constructed.
Constructed == pc.phase \in {"body", "dtor", "done"}

\* The positions of the calls of function fn in the trace, and their number.
Idx(fn) == {i \in 1..Len(trace) : trace[i].fn = fn}

Count(fn) == Cardinality(Idx(fn))

\* The functions called, in order.
Fns(t) == [i \in 1..Len(t) |-> t[i].fn]

\* The calls issued by the constructor and the destructor of class c.
IssuedBy(c) == SelectSeq(trace, LAMBDA r : r.by = c)

\* A test failure was recorded for call number i.
FailedAt(i) == \E k \in 1..Len(failures) : failures[k].at = i

\* The positions of the calls that returned something else than CKR_OK.
NotOk(fn) == {i \in Idx(fn) : trace[i].rv # "CKR_OK"}

\* The fixtures that open a session, those that always log in, and those
\* that log in when the token flags ask for it.
SessionVariants == Variants \ {"PKCS11Test", "SessionTest"}

MandatoryVariants == {"ROUserSessionTest", "RWUserSessionTest", "RWSOSessionTest"}

EitherVariants == {"ROEitherSessionTest", "RWEitherSessionTest"}

----------------------------------------------------------------------------
(* Library Lifecycle Context *)

\* C1: whatever initialize returns, the PKCS11Test layer issues C_Initialize
\* exactly once, first of all calls, and C_Finalize exactly once, last of all
\* calls, and nothing else; a test case on the bare PKCS11Test fixture makes
\* these two calls only.
C1_InitializeFinalizeBracket ==
    /\ Count("C_Initialize") <= 1
    /\ Count("C_Finalize") <= 1
    /\ (pc.phase = "ctor" /\ pc.idx = 1) => trace = <<>>
    /\ ~(pc.phase = "ctor" /\ pc.idx = 1) => Len(trace) >= 1 /\ trace[1].fn = "C_Initialize"
    /\ ~Done => Count("C_Finalize") = 0
    /\ Done =>
        /\ Fns(IssuedBy("PKCS11Test")) = <<"C_Initialize", "C_Finalize">>
        /\ trace[Len(trace)].fn = "C_Finalize"
        /\ variant = "PKCS11Test" => Len(trace) = 2

\* C1 witness: a bare PKCS11Test test case whose initialize failed ran to
\* its end and issued finalize.
C1_Witness ==
    /\ Done
    /\ variant = "PKCS11Test"
    /\ trace[1].rv # "CKR_OK"
    /\ Fns(trace) = <<"C_Initialize", "C_Finalize">>

----------------------------------------------------------------------------
(* Session Context *)

\* C2: in every fixture that opens a session, once constructed the stored
\* handle is the sentinel exactly when C_OpenSession did not return CKR_OK,
\* and the destruction issues C_CloseSession once, on the stored handle,
\* when the handle is not the sentinel and never otherwise.
C2_SentinelIffOpenFailed ==
    (variant \in SessionVariants /\ Constructed) =>
        /\ Count("C_OpenSession") = 1
        /\ (session_ = INVALID_SESSION_HANDLE) <=> (NotOk("C_OpenSession") # {})
        /\ \A i \in Idx("C_CloseSession") : trace[i].h = session_
        /\ Count("C_CloseSession") <= 1
        /\ session_ = INVALID_SESSION_HANDLE => Count("C_CloseSession") = 0
        /\ (Done /\ session_ # INVALID_SESSION_HANDLE) => Count("C_CloseSession") = 1

\* C2 witness: a read-write fixture whose open failed was destroyed without
\* a close.
C2_Witness ==
    /\ Done
    /\ variant = "ReadWriteSessionTest"
    /\ NotOk("C_OpenSession") # {}
    /\ session_ = INVALID_SESSION_HANDLE
    /\ Count("C_CloseSession") = 0

----------------------------------------------------------------------------
(* Authenticated Session Context *)

\* The order in which one test case may issue its calls.
NestingOrder ==
    <<"C_Initialize", "C_GetSlotInfo", "C_OpenSession", "C_Login",
      "C_Logout", "C_CloseSession", "C_Finalize">>

RankOf(fn) == CHOOSE k \in 1..Len(NestingOrder) : NestingOrder[k] = fn

\* The calls of NestingOrder without C_CloseSession.
NestingOrderNoClose == SelectSeq(NestingOrder, LAMBDA f : f # "C_CloseSession")

\* C3: in the fixtures that always log in, whatever the calls return, the
\* calls of a test case are issued in the order initialize, get_slot_info,
\* open_session, login, logout, close_session, finalize, each at most once:
\* finalize never precedes close_session, close_session never precedes
\* logout.  The four setup calls are all made; of the teardown calls only
\* close_session may be missing, and only when the open failed.
C3_NestingOrder ==
    variant \in MandatoryVariants =>
        /\ \A i, j \in 1..Len(trace) :
            i < j => RankOf(trace[i].fn) < RankOf(trace[j].fn)
        /\ Constructed => SubSeq(Fns(trace), 1, 4) = SubSeq(NestingOrder, 1, 4)
        /\ Done => Fns(trace) = IF NotOk("C_OpenSession") = {}
                                THEN NestingOrder
                                ELSE NestingOrderNoClose

\* C3 witness: a security-officer fixture whose login failed ran to its end
\* with all seven calls in order.
C3_Witness ==
    /\ Done
    /\ variant = "RWSOSessionTest"
    /\ NotOk("C_Login") # {}
    /\ Fns(trace) = NestingOrder

\* The number of logins the policy of fixture v demands under token flags f.
ExpectedLogins(v, f) ==
    IF v \in MandatoryVariants \/ (v \in EitherVariants /\ HasFlag(f, "CKF_LOGIN_REQUIRED"))
    THEN 1
    ELSE 0

\* C4: in every fixture that logs in (always, or when the token flags ask for
\* it) the number of login calls of a test case equals its number of logout
\* calls, is 0 or 1, and is fixed by the fixture class and the token flags
\* alone, whatever C_Login or C_OpenSession returned.
C4_LoginLogoutBalanced ==
    variant \in MandatoryVariants \cup EitherVariants =>
        /\ Count("C_Login") <= 1
        /\ Count("C_Logout") <= Count("C_Login")
        /\ Constructed => Count("C_Login") = ExpectedLogins(variant, g_token_flags)
        /\ Done => Count("C_Logout") = ExpectedLogins(variant, g_token_flags)

\* C4 witness: a fixture whose open and whose login both failed still
\* issued one login and one logout.
C4_Witness ==
    /\ Done
    /\ variant = "RWUserSessionTest"
    /\ NotOk("C_OpenSession") # {}
    /\ NotOk("C_Login") # {}
    /\ Count("C_Login") = 1
    /\ Count("C_Logout") = 1

\* C5 (as claimed): no login, logout or close_session call is ever issued
\* with the invalid sentinel handle as its argument.
C5_NoCallOnSentinel ==
    \A i \in 1..Len(trace) :
        trace[i].fn \in {"C_Login", "C_Logout", "C_CloseSession"}
            => trace[i].h # INVALID_SESSION_HANDLE

\* C6 (as claimed): in the fixtures that always log in, a login and a logout
\* that do not return CKR_OK are each recorded as a test failure.
C6_MandatoryLoginLogoutAsserted ==
    variant \in MandatoryVariants =>
        \A i \in NotOk("C_Login") \cup NotOk("C_Logout") : FailedAt(i)

\* The login diagnostics written to std::cerr.
LoginDiagnostics == SelectSeq(cerr, LAMBDA d : d.msg = "Failed to login as user type")

\* C7 (as claimed): in the fixtures that log in when the token flags ask for
\* it, no login and no logout ever records a test failure.
C7_EitherLoginLogoutOnlyLogged ==
    variant \in EitherVariants =>
        \A i \in Idx("C_Login") \cup Idx("C_Logout") : ~FailedAt(i)

\* C7 (amended): in these fixtures a login never records a test failure, and
\* writes one diagnostic when it does not return CKR_OK; a logout records a
\* test failure exactly when it does not return CKR_OK.
C7_EitherLoginLoggedLogoutAsserted ==
    variant \in EitherVariants =>
        /\ \A i \in Idx("C_Login") : ~FailedAt(i)
        /\ Len(LoginDiagnostics) = Cardinality(NotOk("C_Login"))
        /\ \A i \in Idx("C_Logout") : FailedAt(i) <=> trace[i].rv # "CKR_OK"

\* C7 witness: login and logout both failed; the only test failure recorded
\* is the logout's, the login left a diagnostic.
C7_Witness ==
    /\ Done
    /\ variant = "RWEitherSessionTest"
    /\ NotOk("C_Login") # {}
    /\ NotOk("C_Logout") # {}
    /\ Len(LoginDiagnostics) = 1
    /\ {failures[k].at : k \in 1..Len(failures)} = NotOk("C_Logout")

\* C8: in the fixtures that log in when the token flags ask for it, login is
\* issued at construction exactly when CKF_LOGIN_REQUIRED is set and logout
\* at destruction under the same condition; without the flag there is no
\* login and no logout, while open_session is still issued once and
\* close_session once after a successful open.
C8_EitherFollowsTokenFlags ==
    variant \in EitherVariants =>
        /\ Count("C_Login") > 0 => HasFlag(g_token_flags, "CKF_LOGIN_REQUIRED")
        /\ Count("C_Logout") > 0 => HasFlag(g_token_flags, "CKF_LOGIN_REQUIRED")
        /\ (Constructed /\ HasFlag(g_token_flags, "CKF_LOGIN_REQUIRED")) => Count("C_Login") = 1
        /\ (Done /\ HasFlag(g_token_flags, "CKF_LOGIN_REQUIRED")) => Count("C_Logout") = 1
        /\ Constructed => Count("C_OpenSession") = 1
        /\ Done => Count("C_CloseSession") = IF NotOk("C_OpenSession") = {} THEN 1 ELSE 0

\* C8 witness: no login required; the test case opened and closed its
\* session and never logged in or out.
C8_Witness ==
    /\ Done
    /\ variant = "ROEitherSessionTest"
    /\ ~HasFlag(g_token_flags, "CKF_LOGIN_REQUIRED")
    /\ Fns(trace) = <<"C_Initialize", "C_GetSlotInfo", "C_OpenSession",
                      "C_CloseSession", "C_Finalize">>

----------------------------------------------------------------------------
(* Propagation of setup failures *)

\* The setup calls the policy of fixture v demands under token flags f.
SetupCalls(v, f) ==
    <<"C_Initialize">>
    \o (IF v # "PKCS11Test" THEN <<"C_GetSlotInfo">> ELSE <<>>)
    \o (IF v \in SessionVariants THEN <<"C_OpenSession">> ELSE <<>>)
    \o (IF ExpectedLogins(v, f) = 1 THEN <<"C_Login">> ELSE <<>>)

\* The setup calls that are asserted.
AssertedSetup == {"C_Initialize", "C_GetSlotInfo", "C_OpenSession"}

\* C9: whatever initialize, get_slot_info, open_session and login return,
\* the construction issues every setup call the fixture's policy demands,
\* the test body is executed and the teardown runs down to finalize; a
\* failed setup call leaves a record (a non-fatal test failure, for login a
\* diagnostic) and nothing else.
C9_SetupFailureNeverStops ==
    /\ Constructed =>
        SubSeq(Fns(trace), 1, Len(SetupCalls(variant, g_token_flags)))
            = SetupCalls(variant, g_token_flags)
    /\ pc.phase \in {"dtor", "done"} => bodyRan
    /\ Done =>
        /\ trace[Len(trace)].fn = "C_Finalize"
        /\ Count("C_Logout") = ExpectedLogins(variant, g_token_flags)
        /\ session_ # INVALID_SESSION_HANDLE /\ variant \in SessionVariants
               => Count("C_CloseSession") = 1
    /\ \A i \in 1..Len(trace) :
        (trace[i].fn \in AssertedSetup /\ trace[i].rv # "CKR_OK") => FailedAt(i)
    /\ Len(LoginDiagnostics) = Cardinality(NotOk("C_Login"))
    /\ ~HasFatalFailure(failures)

\* C9 witness: every setup call of a logging-in fixture failed, and the test
\* case still made all its setup calls, ran its body and tore down.
C9_Witness ==
    /\ Done
    /\ variant = "RWUserSessionTest"
    /\ \A i \in 1..4 : trace[i].rv # "CKR_OK"
    /\ bodyRan
    /\ Fns(trace) = NestingOrderNoClose

----------------------------------------------------------------------------
(* The library around the session *)

SessionCalls == {"C_OpenSession", "C_Login", "C_Logout", "C_CloseSession"}

\* A session context exists: SessionTest's constructor has run and its
\* destructor has not.
SessionContextExists ==
    \/ pc.phase = "ctor" /\ pc.idx > 2
    \/ pc.phase = "body" /\ Len(Chain(variant)) >= 2
    \/ pc.phase = "dtor" /\ pc.idx >= 2

\* C10 (as claimed): while a session context exists, and at every session
\* call, the library is initialized: C_Initialize returned CKR_OK and
\* C_Finalize has not been called.
C10_LibraryInitialized ==
    /\ SessionContextExists =>
        /\ Len(trace) >= 1
        /\ trace[1].fn = "C_Initialize" /\ trace[1].rv = "CKR_OK"
        /\ Count("C_Finalize") = 0
    /\ \A i \in 1..Len(trace) :
        trace[i].fn \in SessionCalls =>
            /\ trace[1].fn = "C_Initialize" /\ trace[1].rv = "CKR_OK"
            /\ \A j \in 1..i : trace[j].fn # "C_Finalize"

\* C10 (amended): while a session context exists, and at every session
\* call, the library lifecycle context is active: C_Initialize has been
\* called, whatever it returned, and C_Finalize has not been called.
C10_LibraryContextActive ==
    /\ SessionContextExists =>
        /\ Len(trace) >= 1
        /\ trace[1].fn = "C_Initialize"
        /\ Count("C_Finalize") = 0
    /\ \A i \in 1..Len(trace) :
        trace[i].fn \in SessionCalls =>
            /\ trace[1].fn = "C_Initialize"
            /\ \A j \in 1..i : trace[j].fn # "C_Finalize"

\* C10 witness: a session was opened and closed between an initialize that
\* failed and the finalize.
C10_Witness ==
    /\ Done
    /\ trace[1].fn = "C_Initialize" /\ trace[1].rv # "CKR_OK"
    /\ NotOk("C_OpenSession") = {}
    /\ Count("C_OpenSession") = 1
    /\ Count("C_CloseSession") = 1

----------------------------------------------------------------------------
(* Scoped Session Guards *)

\* The names of the guards of either kind a test body may create.
GuardIds(kind) == {GuardId(kind, n) : n \in 1..MaxGuards}

AllGuardIds == GuardIds("Session") \cup GuardIds("LoginSession")

\* The guard named id is alive.
Alive(id) == \E k \in 1..Len(guards) : guards[k].id = id

\* The calls of a LoginSession over its lifetime.
LoginSessionCalls == <<"C_OpenSession", "C_Login", "C_Logout", "C_CloseSession">>

\* C11: whatever its calls return, a LoginSession issues one open_session,
\* then one login, and on destruction one logout, then one close_session,
\* all on the handle its open left in session_; its login and logout never
\* record a test failure, its open_session and close_session record one
\* exactly when they do not return CKR_OK.
C11_LoginSessionBracket ==
    \A id \in GuardIds("LoginSession") :
        LET calls == IssuedBy(id)
        IN  /\ Len(calls) <= 4
            /\ Fns(calls) = SubSeq(LoginSessionCalls, 1, Len(calls))
            /\ \A k \in 1..Len(guards) :
                guards[k].id = id =>
                    Len(calls) = CASE guards[k].stage = "base" -> 1
                                   [] guards[k].stage = "live" -> 2
                                   [] guards[k].stage = "base_dtor" -> 3
            /\ (calls # <<>> /\ ~Alive(id)) => Len(calls) = 4
            /\ \A i \in 1..Len(calls) : calls[i].h = calls[1].h
            /\ \A i \in 1..Len(trace) :
                trace[i].by = id =>
                    IF trace[i].fn \in {"C_Login", "C_Logout"}
                    THEN ~FailedAt(i)
                    ELSE FailedAt(i) <=> trace[i].rv # "CKR_OK"

\* C11 witness: a LoginSession all four calls of which failed was destroyed;
\* the test failures recorded for it are those of its open and its close.
C11_Witness ==
    LET id == GuardId("LoginSession", 1)
        mine == {i \in 1..Len(trace) : trace[i].by = id}
    IN  /\ Fns(IssuedBy(id)) = LoginSessionCalls
        /\ ~Alive(id)
        /\ \A i \in mine : trace[i].rv # "CKR_OK"
        /\ {i \in mine : FailedAt(i)}
               = {i \in mine : trace[i].fn \in {"C_OpenSession", "C_CloseSession"}}

\* The context a call belongs to: the guard that issued it, or the fixture.
ContextOf(by) == IF by \in AllGuardIds THEN by ELSE "fixture"

\* The positions of the calls of the guards, and of the fixture's setup and
\* teardown calls.
GuardCallIdx == {i \in 1..Len(trace) : trace[i].by \in AllGuardIds}

FixtureSetupIdx ==
    {i \in 1..Len(trace) :
        /\ trace[i].by \notin AllGuardIds
        /\ trace[i].fn \in {"C_Initialize", "C_GetSlotInfo", "C_OpenSession", "C_Login"}}

FixtureTeardownIdx ==
    {i \in 1..Len(trace) :
        /\ trace[i].by \notin AllGuardIds
        /\ trace[i].fn \in {"C_Logout", "C_CloseSession", "C_Finalize"}}

\* The handles the successful opens of the contexts other than c returned.
HandlesOfOthers(c) ==
    {trace[j].h : j \in {k \in 1..Len(trace) :
        /\ trace[k].fn = "C_OpenSession" /\ trace[k].rv = "CKR_OK"
        /\ ContextOf(trace[k].by) # c}}

\* C12 (as claimed): the calls of a guard created in a test body lie after
\* the fixture's setup calls and before its teardown calls; a guard never
\* passes to login, logout or close_session a handle that another context
\* opened; and a fixture that opened a session closes it exactly once.
C12_GuardComposesSafely ==
    /\ \A i \in GuardCallIdx :
        /\ \A j \in FixtureSetupIdx : j < i
        /\ \A j \in FixtureTeardownIdx : i < j
    /\ \A i \in GuardCallIdx :
        trace[i].fn \in {"C_Login", "C_Logout", "C_CloseSession"}
            => trace[i].h \notin HandlesOfOthers(trace[i].by)
    /\ (Done /\ variant \in SessionVariants /\ session_ # INVALID_SESSION_HANDLE) =>
        Cardinality({i \in Idx("C_CloseSession") :
            trace[i].by = "SessionTest" /\ trace[i].h = session_}) = 1

\* C13 (as claimed): every close_session call passes a handle that a
\* successful open_session of the same context returned, and the context
\* has issued no close_session before.
C13_CloseOnlyOwnOpenHandle ==
    \A i \in Idx("C_CloseSession") :
        /\ \E j \in 1..(i - 1) :
            /\ trace[j].fn = "C_OpenSession" /\ trace[j].rv = "CKR_OK"
            /\ ContextOf(trace[j].by) = ContextOf(trace[i].by)
            /\ trace[j].h = trace[i].h
        /\ \A j \in 1..(i - 1) :
            trace[j].fn = "C_CloseSession"
                => ContextOf(trace[j].by) # ContextOf(trace[i].by)

----------------------------------------------------------------------------
(* The token-present check *)

\* The warnings about a slot without a token written to std::cerr.
TokenDiagnostics ==
    SelectSeq(cerr, LAMBDA d : d.msg = "Need to specify a slot ID that has a token present")

\* The calls of a whole test case on fixture v under token flags f, given
\* whether its open_session succeeded.
ExpectedFns(v, f, openOk) ==
    SetupCalls(v, f)
    \o (IF ExpectedLogins(v, f) = 1 THEN <<"C_Logout">> ELSE <<>>)
    \o (IF v \in SessionVariants /\ openOk THEN <<"C_CloseSession">> ELSE <<>>)
    \o <<"C_Finalize">>

\* C14: in every fixture that opens a session, get_slot_info is called
\* exactly once, right after initialize and before open_session, and
\* open_session is issued exactly once after it, whatever get_slot_info
\* returned and whether or not a missing token was reported; the calls of
\* the whole test case are those its fixture, the token flags and the
\* outcome of the open determine.
C14_TokenCheckIsDiagnosticOnly ==
    variant \in SessionVariants =>
        /\ Count("C_GetSlotInfo") <= 1
        /\ Len(TokenDiagnostics) <= Count("C_GetSlotInfo")
        /\ (pc.phase # "ctor" \/ pc.idx > 2) =>
            /\ Count("C_GetSlotInfo") = 1
            /\ Fns(SubSeq(trace, 1, 2)) = <<"C_Initialize", "C_GetSlotInfo">>
        /\ (pc.phase # "ctor" \/ pc.idx > 3) =>
            /\ Count("C_OpenSession") = 1
            /\ trace[3].fn = "C_OpenSession"
        /\ Done => Fns(trace) = ExpectedFns(variant, g_token_flags, NotOk("C_OpenSession") = {})

\* C14 witness: get_slot_info failed and a missing token was reported; the
\* session was opened and closed all the same.
C14_Witness ==
    /\ Done
    /\ variant = "ReadOnlySessionTest"
    /\ NotOk("C_GetSlotInfo") # {}
    /\ Len(TokenDiagnostics) = 1
    /\ Fns(trace) = <<"C_Initialize", "C_GetSlotInfo", "C_OpenSession",
                      "C_CloseSession", "C_Finalize">>

----------------------------------------------------------------------------
(* SessionTest::Login *)

\* The step is a call of SessionTest::Login: it adds a C_Login to the trace.
LoginStep ==
    \E i \in (Len(trace) + 1)..Len(trace') : trace'[i].fn = "C_Login"

\* C15: a call of SessionTest::Login issues exactly one C_Login, on the
\* handle stored in session_, leaves session_ as it was and records no test
\* failure for any status; when the status is not CKR_OK it writes one
\* diagnostic naming the user type and the status, and nothing otherwise.
C15_LoginFrame ==
    [][ LoginStep =>
          LET call == trace'[Len(trace')]
          IN  /\ trace' = Append(trace, call)
              /\ call.fn = "C_Login"
              /\ call.h = session_
              /\ session_' = session_
              /\ failures' = failures
              /\ cerr' = IF call.rv # "CKR_OK"
                         THEN Append(cerr, [msg |-> "Failed to login as user type",
                                            user_type |-> call.arg, rv |-> call.rv])
                         ELSE cerr ]_vars

\* C15 witness: Login was refused on a valid handle; the handle is still
\* stored, no test failure is recorded, one diagnostic was written.
C15_Witness ==
    /\ pc.phase = "body"
    /\ failures = <<>>
    /\ session_ \in Handles
    /\ NotOk("C_Login") # {}
    /\ \A i \in Idx("C_Login") : trace[i].h = session_
    /\ Len(LoginDiagnostics) = 1

----------------------------------------------------------------------------
(* The recorded result of a test case *)

\* The calls whose status a fixture asserts.
AssertedCalls ==
    {"C_Initialize", "C_Finalize", "C_GetSlotInfo", "C_OpenSession",
     "C_CloseSession", "C_Logout"}

\* The positions of the asserted calls that did not return CKR_OK.
AssertedNotOk ==
    {i \in 1..Len(trace) : trace[i].fn \in AssertedCalls /\ trace[i].rv # "CKR_OK"}

\* gTest records the test case as failed.
Failed == failures # <<>>

\* C16: with a test body that asserts nothing, the test failures recorded
\* are, one each, those of the initialize, finalize, get_slot_info,
\* open_session, close_session and logout calls that did not return CKR_OK,
\* so the test case is recorded as failed exactly when there is such a call;
\* the status of login records nothing, and no failure is fatal: the body
\* runs and the test case makes all the calls it makes when nothing fails.
C16_FailedIffAssertedCallFailed ==
    /\ {failures[k].at : k \in 1..Len(failures)} = AssertedNotOk
    /\ Len(failures) = Cardinality(AssertedNotOk)
    /\ Failed <=> AssertedNotOk # {}
    /\ \A i \in Idx("C_Login") : ~FailedAt(i)
    /\ ~HasFatalFailure(failures)
    /\ pc.phase \in {"dtor", "done"} => bodyRan
    /\ Done => Fns(trace) = ExpectedFns(variant, g_token_flags, NotOk("C_OpenSession") = {})

\* C16 witness: the login was refused and every other call succeeded; the
\* test case is not recorded as failed.
C16_Witness ==
    /\ Done
    /\ variant = "RWSOSessionTest"
    /\ NotOk("C_Login") # {}
    /\ AssertedNotOk = {}
    /\ ~Failed
    /\ Fns(trace) = NestingOrder

----------------------------------------------------------------------------
(* Determinism of the call sequence *)

\* t is the beginning of u.
IsPrefix(t, u) == Len(t) <= Len(u) /\ t = SubSeq(u, 1, Len(t))

\* C17: the sequence of the functions a test case calls is a function of its
\* fixture class, the token flags and the outcome of open_session alone: at
\* every moment the calls made so far are the beginning of the one sequence
\* the fixture and the flags fix, with close_session taken out when the open
\* failed, and a finished test case has made all of them.  Two runs that
\* agree on fixture, flags and the outcome of the open therefore call the
\* same functions in the same order, whatever every other call returned.
C17_CallSequenceDeterminism ==
    LET whole == ExpectedFns(variant, g_token_flags, TRUE)
        due == IF NotOk("C_OpenSession") = {}
               THEN whole
               ELSE SelectSeq(whole, LAMBDA f : f # "C_CloseSession")
    IN  /\ IsPrefix(Fns(trace), due)
        /\ Done => Len(trace) = Len(due)
        /\ (Done /\ NotOk("C_OpenSession") # {}) => Len(trace) = Len(whole) - 1

\* C17 witness: a test case in which every call but the open failed made
\* the same calls as one in which nothing fails.
C17_Witness ==
    /\ Done
    /\ variant = "ROUserSessionTest"
    /\ \A i \in 1..Len(trace) : trace[i].rv = "CKR_OK" <=> trace[i].fn = "C_OpenSession"
    /\ Fns(trace) = NestingOrder

----------------------------------------------------------------------------
(* Isolation of the test cases of a run *)

\* Every call of the run so far: the finished test cases, then this one.
RunCalls == archive \o Kept(trace)

\* The handles the finished test cases were given.
EarlierHandles ==
    {archive[i].h : i \in {j \in 1..Len(archive) :
        archive[j].fn = "C_OpenSession" /\ archive[j].rv = "CKR_OK"}}

\* Initialize and finalize alternate, initialize first.
LibraryAlternates ==
    LET brackets == SelectSeq(RunCalls, LAMBDA r : r.fn \in {"C_Initialize", "C_Finalize"})
    IN  \A i \in 1..Len(brackets) :
            brackets[i].fn = IF i % 2 = 1 THEN "C_Initialize" ELSE "C_Finalize"

\* A handle a fixture opened has a close issued on it before the finalize of
\* its test case.
FixtureClosesBeforeFinalize ==
    \A i \in 1..Len(trace) :
        (trace[i].fn = "C_OpenSession" /\ trace[i].rv = "CKR_OK" /\ trace[i].by \in Variants)
        => \A k \in Idx("C_Finalize") :
               \E j \in (i + 1)..(k - 1) :
                   trace[j].fn = "C_CloseSession" /\ trace[j].h = trace[i].h

\* No call of this test case passes a handle an earlier test case stored,
\* unless an open of this test case returned that value anew.
NoStaleHandle ==
    \A i \in 1..Len(trace) :
        (trace[i].fn \in {"C_Login", "C_Logout", "C_CloseSession"} /\ trace[i].h \in EarlierHandles)
        => \E j \in 1..(i - 1) :
               trace[j].fn = "C_OpenSession" /\ trace[j].rv = "CKR_OK" /\ trace[j].h = trace[i].h

\* C18: over test cases run one after another, initialize and finalize
\* strictly alternate starting with initialize, every handle a fixture
\* opened has close_session issued on it before that test case's finalize,
\* and no call of a later test case uses a handle stored by an earlier one.
C18_TestIsolation ==
    /\ LibraryAlternates
    /\ FixtureClosesBeforeFinalize
    /\ NoStaleHandle

====
